---- MODULE Spec2Model ----
(***************************************************************************)
(* Model of the completion-event recorder of crates/language_model:        *)
(*   message_handler/mod.rs      Message schema, mapper, stream tap        *)
(*   message_handler/postgres.rs Postgres-backed store (merge-append)      *)
(*   message_handler/registry.rs handler registry                          *)
(*                                                                         *)
(* Conventions.                                                            *)
(*   - A Rust String is a sequence of one-character strings, so that       *)
(*     String::replace and format!("{:?}") act on characters.              *)
(*   - Option<T> is a sequence of length 0 (None) or 1 (Some(x)).          *)
(*   - A serde_json::Value is a tagged record [t, v].                      *)
(*   - A HashMap<String, Value> is a function whose domain is a set of     *)
(*     key strings.                                                        *)
(***************************************************************************)
EXTENDS Integers, Sequences, FiniteSets, Bags, TLC

----------------------------------------------------------------------------
(* Bounds of the model.                                                    *)

\* Longest source stream handed to peek_db.
MaxStream == 2

\* Most append operations (direct calls and detached tap tasks) per run.
MaxWrites == 2

\* Longest batch handed to the client's save_append_messages on its own.
MaxBatch == 3

\* Most connection tasks init_message_handler spawns per run.
MaxConnects == 2

\* Most texts of a multi-text ContentValue.
MaxTexts == 2

----------------------------------------------------------------------------
(* Option, strings, JSON values.                                           *)

None == << >>

Some(x) == << x >>

IsSome(o) == Len(o) = 1

Unwrap(o) == o[1]

Range(s) == { s[i] : i \in DOMAIN s }

\* str::replace("'", ""): every apostrophe is removed, the rest keeps its order.
ReplaceQuote(s) == SelectSeq(s, LAMBDA c : c # "'")

JStr(s) == [t |-> "str", v |-> s]

JNum(n) == [t |-> "num", v |-> n]

JBool(b) == [t |-> "bool", v |-> b]

JNull == [t |-> "null"]

\* An f32 is a finite number or not (NaN, an infinity).
F32(n) == [finite |-> TRUE, n |-> n]

NaN == [finite |-> FALSE]

\* serde_json::Value::from(f32): Number::from_f32(f).map_or(Null, Number),
\* and from_f32 is None for a value that is not finite.
value_from_f32(f) == IF f.finite THEN JNum(f.n) ELSE JNull

\* serde_json::Value::as_str
as_str(j) == IF j.t = "str" THEN Some(j.v) ELSE None

EmptyMap == [k \in {} |-> None]

\* HashMap::insert
Insert(m, k, v) == [x \in DOMAIN m \cup {k} |-> IF x = k THEN v ELSE m[x]]

\* HashMap::get
Get(m, k) == IF k \in DOMAIN m THEN Some(m[k]) ELSE None

----------------------------------------------------------------------------
(* Texts the model draws payloads from.                                    *)

ZedIdeAgent == << "Z", "e", "d", "I", "d", "e", "A", "g", "e", "n", "t" >>

STOP == << "S", "T", "O", "P" >>

ThreadSummarization ==
    << "T", "h", "r", "e", "a", "d", "S", "u", "m", "m", "a", "r", "i", "z",
       "a", "t", "i", "o", "n" >>

ThreadContextSummarization ==
    << "T", "h", "r", "e", "a", "d", "C", "o", "n", "t", "e", "x", "t", "S",
       "u", "m", "m", "a", "r", "i", "z", "a", "t", "i", "o", "n" >>

UserPrompt == << "U", "s", "e", "r", "P", "r", "o", "m", "p", "t" >>

TxtHi == << "h", "i" >>

TxtIts == << "i", "t", "'", "s" >>

TxtEmpty == << >>

----------------------------------------------------------------------------
(* Message schema (mod.rs, enum Message) and the mapper.                   *)

MessageTypes == { "human", "ai", "system", "tool", "function" }

\* Message::Human { .. }
Human(content, id, name, example, additional_kwargs, response_metadata) ==
    [ type |-> "human", content |-> content, id |-> id, name |-> name,
      example |-> example, additional_kwargs |-> additional_kwargs,
      response_metadata |-> response_metadata ]

\* Message::Ai { .. }
Ai(content, id, name, example, invalid_tool_calls, tool_calls, additional_kwargs, response_metadata) ==
    [ type |-> "ai", content |-> content, id |-> id, name |-> name,
      example |-> example, invalid_tool_calls |-> invalid_tool_calls,
      tool_calls |-> tool_calls, additional_kwargs |-> additional_kwargs,
      response_metadata |-> response_metadata ]

\* Message::System { .. }
System(content, id, name, example, additional_kwargs, response_metadata) ==
    [ type |-> "system", content |-> content, id |-> id, name |-> name,
      example |-> example, additional_kwargs |-> additional_kwargs,
      response_metadata |-> response_metadata ]

\* Message::Tool { .. }
Tool(content, id, name, example, tool_call_id, tool_name, additional_kwargs, response_metadata) ==
    [ type |-> "tool", content |-> content, id |-> id, name |-> name,
      example |-> example, tool_call_id |-> tool_call_id,
      tool_name |-> tool_name, additional_kwargs |-> additional_kwargs,
      response_metadata |-> response_metadata ]

\* Message::Function { .. }
Function(content, id, name, example, function_call, additional_kwargs, response_metadata) ==
    [ type |-> "function", content |-> content, id |-> id, name |-> name,
      example |-> example, function_call |-> function_call,
      additional_kwargs |-> additional_kwargs,
      response_metadata |-> response_metadata ]

\* ContentValue::new: the Single variant.
ContentValue_new(content) == [shape |-> "Single", text |-> content]

\* ContentValue::from_vec: the Multiple variant.
ContentValue_from_vec(content) == [shape |-> "Multiple", texts |-> content]

\* The escaping serde_json and <str as Debug> apply to a double quote and a
\* backslash inside a string.
RECURSIVE Escape(_)
Escape(s) ==
    IF s = << >> THEN << >>
    ELSE (IF Head(s) \in { "\"", "\\" } THEN << "\\", Head(s) >>
          ELSE << Head(s) >>) \o Escape(Tail(s))

\* format!("{:?}", String)
DebugString(s) == << "\"" >> \o Escape(s) \o << "\"" >>

\* serde_json::to_string of one MessageContent::Text(text): {"Text":"<text>"}
JsonOfPart(part) ==
    << "{", "\"", "T", "e", "x", "t", "\"", ":", "\"" >> \o Escape(part.text)
        \o << "\"", "}" >>

RECURSIVE JsonOfParts(_)
JsonOfParts(parts) ==
    IF parts = << >> THEN << >>
    ELSE JsonOfPart(Head(parts))
         \o (IF Tail(parts) = << >> THEN << >> ELSE << "," >>)
         \o JsonOfParts(Tail(parts))

\* serde_json::to_string(&request_message.content), Err(_) => String::default()
\* A part the encoder rejects is modelled by kind "Unserializable".
to_string_content(content) ==
    IF \E i \in DOMAIN content : content[i].kind = "Unserializable"
    THEN << >>
    ELSE << "[" >> \o JsonOfParts(content) \o << "]" >>

\* Faulty variant: the model id taken from the request context, so absent
\* without one.
build_response_metadata_from_request_only(metadata, language_model_args) ==
    IF IsSome(metadata)
    THEN Insert(EmptyMap, "model_id", JStr(DebugString(language_model_args)))
    ELSE EmptyMap

\* AiMessageHandler::build_response_metadata
build_response_metadata(metadata, language_model_args) ==
    LET m0 == Insert(EmptyMap, "model_id",
                     JStr(DebugString(language_model_args)))
        m1 == IF IsSome(metadata) /\ IsSome(Unwrap(metadata).temperature)
              THEN Insert(m0, "temperature",
                          value_from_f32(Unwrap(Unwrap(metadata).temperature)))
              ELSE m0
        m2 == IF IsSome(metadata) /\ IsSome(Unwrap(metadata).intent)
              THEN Insert(m1, "intent", JStr(Unwrap(Unwrap(metadata).intent)))
              ELSE m1
        m3 == IF IsSome(metadata) /\ IsSome(Unwrap(metadata).mode)
              THEN Insert(m2, "mode", JStr(Unwrap(Unwrap(metadata).mode)))
              ELSE m2
        m4 == IF IsSome(metadata) /\ IsSome(Unwrap(metadata).prompt_id)
              THEN Insert(m3, "prompt_id",
                          JStr(Unwrap(Unwrap(metadata).prompt_id)))
              ELSE m3
    IN  m4

\* Faulty variant: the message id taken from the checkpoint, and an assistant
\* message filed as a human one.
map_from_completion_request_checkpoint_id(request_message, id, metadata, language_model_args) ==
    Some(Human(ContentValue_new(<< >>), id.checkpoint_id, Some(ZedIdeAgent),
               FALSE, EmptyMap, EmptyMap))

\* AiMessageHandler::map_from_completion_request
map_from_completion_request(request_message, id, metadata, language_model_args) ==
    LET content_value == ContentValue_new(to_string_content(request_message.content))
        mid == id.thread_id
        response_metadata == build_response_metadata(metadata, language_model_args)
    IN  CASE request_message.role = "User" ->
               Some(Human(content_value, mid, Some(ZedIdeAgent), FALSE,
                          EmptyMap, response_metadata))
          [] request_message.role = "System" ->
               Some(System(content_value, mid, Some(ZedIdeAgent), FALSE,
                           EmptyMap, response_metadata))
          [] request_message.role = "Assistant" ->
               Some(Ai(content_value, mid, Some(ZedIdeAgent), FALSE, None, None,
                       EmptyMap, response_metadata))

\* serde_json::to_string(&tool_use.input), Err(_) => String::default()
\* The input is carried as its JSON text; bad marks a value the encoder
\* rejects.
to_string_input(input) == IF input.bad THEN << >> ELSE input.json

\* Faulty variant: the signature is never recorded.
ThinkingKwargsUnsigned(text, signature) ==
    Insert(EmptyMap, "thinking", JStr(text))

\* The Thinking arm's additional_kwargs.
ThinkingKwargs(text, signature) ==
    LET k0 == Insert(EmptyMap, "thinking", JStr(text))
    IN  IF IsSome(signature)
        THEN Insert(k0, "signature", JStr(Unwrap(signature)))
        ELSE k0

\* The ToolUse arm's additional_kwargs.
ToolUseKwargs(tool_use) ==
    Insert(Insert(EmptyMap, "raw_input", JStr(tool_use.raw_input)),
           "is_input_complete", JBool(tool_use.is_input_complete))

\* The arm LanguageModelCompletionEvent::StatusUpdate { .. }.
StatusUpdateArm == None

\* The arm LanguageModelCompletionEvent::StartMessage { .. }.
StartMessageArm == None

\* The arm LanguageModelCompletionEvent::UsageUpdate(_token_usage).
UsageUpdateArm == None

\* The arm LanguageModelCompletionEvent::Text(text).
TextArm(text, thread_id, response_metadata) ==
    Some(Ai(ContentValue_new(text), thread_id, Some(ZedIdeAgent), FALSE, None,
            None, EmptyMap, response_metadata))

\* The arm LanguageModelCompletionEvent::Thinking { text, signature }.
ThinkingArm(text, signature, thread_id, response_metadata) ==
    Some(Ai(ContentValue_new(text), thread_id, Some(ZedIdeAgent), FALSE, None,
            None, ThinkingKwargs(text, signature), response_metadata))

\* Faulty variant: a stop event treated as a control signal.
StopArmDropped(thread_id, response_metadata) == None

\* The arm LanguageModelCompletionEvent::Stop(_).
StopArm(thread_id, response_metadata) ==
    Some(Ai(ContentValue_new(STOP), thread_id, Some(ZedIdeAgent), FALSE, None,
            None, EmptyMap, response_metadata))

\* The arm LanguageModelCompletionEvent::ToolUse(tool_use).
ToolUseArm(tool_use, response_metadata) ==
    Some(Tool(ContentValue_new(to_string_input(tool_use.input)), tool_use.id,
              Some(ZedIdeAgent), FALSE, Some(tool_use.id), Some(tool_use.name),
              ToolUseKwargs(tool_use), response_metadata))

\* AiMessageHandler::map_from_completion_event
map_from_completion_event(request_message, thread_id, metadata, language_model_args) ==
    LET response_metadata == build_response_metadata(metadata, language_model_args)
        ev == request_message
    IN  CASE ev.kind = "StatusUpdate" -> StatusUpdateArm
          [] ev.kind = "StartMessage" -> StartMessageArm
          [] ev.kind = "Text" -> TextArm(ev.text, thread_id, response_metadata)
          [] ev.kind = "Thinking" ->
               ThinkingArm(ev.text, ev.signature, thread_id, response_metadata)
          [] ev.kind = "Stop" -> StopArm(thread_id, response_metadata)
          [] ev.kind = "ToolUse" -> ToolUseArm(ev.tool_use, response_metadata)
          [] ev.kind = "UsageUpdate" -> UsageUpdateArm

----------------------------------------------------------------------------
(* Serialization of the schema (the serde derives of mod.rs).              *)

\* serde_json's text of a string.
JsonString(text) == << "\"" >> \o Escape(text) \o << "\"" >>

RECURSIVE JsonStrings(_)
JsonStrings(texts) ==
    IF texts = << >> THEN << >>
    ELSE JsonString(Head(texts))
         \o (IF Tail(texts) = << >> THEN << >> ELSE << "," >>)
         \o JsonStrings(Tail(texts))

\* Faulty variant: ContentValue without #[serde(untagged)], each variant
\* wrapped in an object named after it.
serialize_content_tagged(content) ==
    IF content.shape = "Single"
    THEN << "{", "\"", "S", "\"", ":" >> \o JsonString(content.text) \o << "}" >>
    ELSE << "{", "\"", "M", "\"", ":", "[" >> \o JsonStrings(content.texts)
         \o << "]", "}" >>

\* serde_json::to_string(&ContentValue): #[serde(untagged)] writes the
\* payload of the variant alone.
serialize_content(content) ==
    IF content.shape = "Single"
    THEN JsonString(content.text)
    ELSE << "[" >> \o JsonStrings(content.texts) \o << "]" >>

\* Reads a JSON string of text t from position i, just past its opening
\* quote, up to its closing quote.
RECURSIVE ParseString(_, _, _)
ParseString(t, i, acc) ==
    IF i > Len(t) THEN [ ok |-> FALSE ]
    ELSE IF t[i] = "\"" THEN [ ok |-> TRUE, text |-> acc, next |-> i + 1 ]
    ELSE IF t[i] = "\\"
    THEN IF i + 1 > Len(t) THEN [ ok |-> FALSE ]
         ELSE ParseString(t, i + 2, Append(acc, t[i + 1]))
    ELSE ParseString(t, i + 1, Append(acc, t[i]))

\* Reads the elements of a JSON array of strings of text t from position i,
\* just past "[" or a comma, up to the closing "]".
RECURSIVE ParseStrings(_, _, _)
ParseStrings(t, i, acc) ==
    IF i > Len(t) THEN [ ok |-> FALSE ]
    ELSE IF t[i] = "]" /\ acc = << >>
    THEN [ ok |-> TRUE, texts |-> acc, next |-> i + 1 ]
    ELSE IF t[i] = "\""
    THEN LET r == ParseString(t, i + 1, << >>)
         IN  IF ~r.ok \/ r.next > Len(t) THEN [ ok |-> FALSE ]
             ELSE IF t[r.next] = ","
             THEN ParseStrings(t, r.next + 1, Append(acc, r.text))
             ELSE IF t[r.next] = "]"
             THEN [ ok |-> TRUE, texts |-> Append(acc, r.text),
                    next |-> r.next + 1 ]
             ELSE [ ok |-> FALSE ]
    ELSE [ ok |-> FALSE ]

\* serde_json::from_str::<ContentValue>: the untagged enum takes the first
\* variant the value fits, Single(String) before Multiple(Vec<String>).
from_str_content(t) ==
    LET single == IF t # << >> /\ t[1] = "\"" THEN ParseString(t, 2, << >>)
                  ELSE [ ok |-> FALSE ]
        multiple == IF t # << >> /\ t[1] = "[" THEN ParseStrings(t, 2, << >>)
                    ELSE [ ok |-> FALSE ]
    IN  IF single.ok /\ single.next = Len(t) + 1
        THEN [ ok |-> TRUE, value |-> ContentValue_new(single.text) ]
        ELSE IF multiple.ok /\ multiple.next = Len(t) + 1
        THEN [ ok |-> TRUE, value |-> ContentValue_from_vec(multiple.texts) ]
        ELSE [ ok |-> FALSE ]

JObj(m) == [t |-> "obj", v |-> m]

JArr(xs) == [t |-> "arr", v |-> xs]

\* The JSON value of a ContentValue inside a message.
content_value(content) ==
    IF content.shape = "Single" THEN JStr(content.text)
    ELSE JArr([ i \in DOMAIN content.texts |-> JStr(content.texts[i]) ])

\* One field of the serialized object.
Field(key, value) == << << key, value >> >>

\* Faulty variant: an Option field under skip_serializing_if = "Option::is_none".
skip_serializing_none(key, o, kind) ==
    IF ~IsSome(o) THEN << >>
    ELSE << << key, IF kind = "string" THEN JStr(Unwrap(o))
                    ELSE JObj(Unwrap(o)) >> >>

\* An Option<String> or Option<HashMap<..>> field: serde writes None as null.
serialize_option_field(key, o, kind) ==
    << << key, IF ~IsSome(o) THEN JNull
               ELSE IF kind = "string" THEN JStr(Unwrap(o))
               ELSE JObj(Unwrap(o)) >> >>

\* serde_json::to_value(&Message): #[serde(tag = "type")] writes the renamed
\* variant name as the field type, followed by the variant's fields in
\* declaration order.
serialize_message(m) ==
    LET head == Field("type", JStr(m.type))
                \o Field("content", content_value(m.content))
                \o Field("id", JStr(m.id))
                \o serialize_option_field("name", m.name, "string")
                \o Field("example", JBool(m.example))
        own == CASE m.type = "ai" ->
                      serialize_option_field("invalid_tool_calls",
                                             m.invalid_tool_calls, "map")
                      \o serialize_option_field("tool_calls", m.tool_calls,
                                                "map")
                 [] m.type = "tool" ->
                      serialize_option_field("tool_call_id", m.tool_call_id,
                                             "string")
                      \o serialize_option_field("tool_name", m.tool_name,
                                                "string")
                 [] m.type = "function" ->
                      serialize_option_field("function_call",
                                             m.function_call, "map")
                 [] OTHER -> << >>
    IN  head \o own
        \o Field("additional_kwargs", JObj(m.additional_kwargs))
        \o Field("response_metadata", JObj(m.response_metadata))

----------------------------------------------------------------------------
(* Task-path classifier and the Postgres-backed store (postgres.rs).       *)

\* task_paths.iter().all(|t| t.eq(tag))
AllEq(task_paths, tag) == \A i \in DOMAIN task_paths : task_paths[i] = tag

\* task_paths.iter().any(|t| t.eq(tag))
AnyEq(task_paths, tag) == \E i \in DOMAIN task_paths : task_paths[i] = tag

\* The flat_map of _parse_task_path: the string intents of the batch, in order.
RECURSIVE Intents(_)
Intents(message) ==
    IF message = << >> THEN << >>
    ELSE LET j == Get(Head(message).response_metadata, "intent")
             here == IF IsSome(j) THEN as_str(Unwrap(j)) ELSE None
         IN  here \o Intents(Tail(message))

\* Faulty variant: the context-summarization check is missing.
_parse_task_path_without_context(message) ==
    IF AllEq(Intents(message), ThreadSummarization)
    THEN "summarization" ELSE "standard"

\* PostgresDatabaseClient::_parse_task_path
_parse_task_path(message) ==
    LET task_paths == Intents(message)
        p0 == "standard"
        p1 == IF AllEq(task_paths, ThreadSummarization)
              THEN "summarization" ELSE p0
        p2 == IF AllEq(task_paths, ThreadContextSummarization)
              THEN "context_summarization" ELSE p1
    IN  p2

\* The log::error! calls of _parse_task_path: the anomalies it flags.
TaskPathAnomalies(message) ==
    LET task_paths == Intents(message)
        task_path == _parse_task_path(message)
    IN  (IF task_path # "summarization"
            /\ AnyEq(task_paths, ThreadSummarization)
         THEN { "not all ThreadSummarization" } ELSE {})
        \cup
        (IF task_path # "context_summarization"
            /\ AnyEq(task_paths, ThreadContextSummarization)
         THEN { "not all ThreadContextSummarization" } ELSE {})

\* json.replace("'", "") on one JSON value: apostrophes occur only inside
\* string values, so the text-level replace removes them from every string.
QuoteStrippedValue(j) == IF j.t = "str" THEN JStr(ReplaceQuote(j.v)) ELSE j

QuoteStrippedMap(m) == [k \in DOMAIN m |-> QuoteStrippedValue(m[k])]

QuoteStrippedOpt(o) == IF IsSome(o) THEN Some(ReplaceQuote(Unwrap(o))) ELSE None

QuoteStrippedContent(c) ==
    IF c.shape = "Single"
    THEN [c EXCEPT !.text = ReplaceQuote(@)]
    ELSE [c EXCEPT !.texts = [i \in DOMAIN @ |-> ReplaceQuote(@[i])]]

QuoteStrippedMessage(m) ==
    LET base == [m EXCEPT !.content = QuoteStrippedContent(@),
                          !.id = ReplaceQuote(@),
                          !.name = QuoteStrippedOpt(@),
                          !.additional_kwargs = QuoteStrippedMap(@),
                          !.response_metadata = QuoteStrippedMap(@)]
    IN  IF m.type = "tool"
        THEN [base EXCEPT !.tool_call_id = QuoteStrippedOpt(@),
                          !.tool_name = QuoteStrippedOpt(@)]
        ELSE base

\* let json = json.replace("'", ""), on the JSON array of the batch.
QuoteStripped(json) == [i \in DOMAIN json |-> QuoteStrippedMessage(json[i])]

\* PostgresDatabaseClient::_parse_sql_query: the statement, as the values
\* interpolated into its text.  blob is the INSERT's value, append the
\* right operand of || in the DO UPDATE.
_parse_sql_query(ids, json, task_path) ==
    [ thread_id |-> ids.thread_id, prompt_id |-> ids.prompt_id,
      session_id |-> ids.session_id, checkpoint_id |-> ids.checkpoint_id,
      blob |-> QuoteStripped(json), task_path |-> task_path,
      append |-> QuoteStripped(json) ]

\* A value interpolated between '...' that itself holds an apostrophe ends
\* the literal early; for the identifiers this model draws, what follows is
\* not SQL and the server rejects the statement.
Malformed(q) ==
    \E s \in { q.thread_id, q.prompt_id, q.session_id, q.checkpoint_id } :
        "'" \in Range(s)

\* Faulty variant: the conflict target is the thread alone.
ConflictingOnThread(tbl, q) == { r \in tbl : r.thread_id = q.thread_id }

\* The rows that conflict with the statement on the primary key
\* (thread_id, checkpoint_id).
Conflicting(tbl, q) ==
    { r \in tbl : r.thread_id = q.thread_id /\ r.checkpoint_id = q.checkpoint_id }

\* Faulty variant: the update overwrites the document with the new array.
DoUpdateOverwriting(r, q, now) == [r EXCEPT !.blob = q.append]

\* Faulty variant: the update also refreshes the other columns.
DoUpdateRefreshing(r, q, now) ==
    [r EXCEPT !.blob = @ \o q.append, !.checkpoint_ts = now,
              !.prompt_id = q.prompt_id, !.session_id = q.session_id]

\* Faulty variant: the update also relabels the row with the incoming
\* batch's task_path.
DoUpdateRelabelling(r, q, now) ==
    [r EXCEPT !.blob = @ \o q.append, !.task_path = q.task_path]

\* ON CONFLICT (thread_id, checkpoint_id) DO UPDATE SET blob = old || new
DoUpdate(r, q, now) == [r EXCEPT !.blob = @ \o q.append]

\* INSERT INTO ide_checkpoints ... VALUES (...)
InsertRow(q, now) ==
    [ thread_id |-> q.thread_id, prompt_id |-> q.prompt_id,
      session_id |-> q.session_id, checkpoint_ts |-> now,
      checkpoint_id |-> q.checkpoint_id, blob |-> q.blob,
      task_path |-> q.task_path ]

\* Faulty variant: a conflicting row is deleted and the insert that should follow
\* is lost.
UpsertDeleting(tbl, q, now) ==
    IF Conflicting(tbl, q) = {}
    THEN tbl \cup { InsertRow(q, now) }
    ELSE tbl \ Conflicting(tbl, q)

\* Faulty variant: the row of a failed statement is written all the same.
ExecuteErrApplied(tbl, q, now) ==
    IF Conflicting(tbl, q) = {}
    THEN tbl \cup { InsertRow(q, now) }
    ELSE (tbl \ Conflicting(tbl, q))
         \cup { DoUpdate(r, q, now) : r \in Conflicting(tbl, q) }

\* The table after execute returned Err (no connection acquired within the
\* pool's timeout, or the server rejected the statement): the statement is
\* one atomic command, nothing of it is applied, and save_append_messages
\* only logs the error.
ExecuteErr(tbl, q, now) == tbl

\* The table after the server has executed the statement of _parse_sql_query
\* as one atomic INSERT ... ON CONFLICT DO UPDATE at time now.
Upsert(tbl, q, now) ==
    IF Conflicting(tbl, q) = {}
    THEN tbl \cup { InsertRow(q, now) }
    ELSE (tbl \ Conflicting(tbl, q))
         \cup { DoUpdate(r, q, now) : r \in Conflicting(tbl, q) }

----------------------------------------------------------------------------
(* The handler's append operations (mod.rs) and the client's write         *)
(* (postgres.rs).                                                          *)

\* Faulty variant: a batch the classifier flags is refused.
pg_save_append_messages_rejecting_mixed(client, message, ids) ==
    IF ~IsSome(client.pool) \/ TaskPathAnomalies(message) # {}
    THEN [ stmt |-> None, logged |-> TaskPathAnomalies(message) ]
    ELSE [ stmt |-> Some(_parse_sql_query(ids, message,
                                          _parse_task_path(message))),
           logged |-> {} ]

\* <PostgresDatabaseClient as DatabaseClient>::save_append_messages, up to
\* the await of execute: the statement it sends, if any, and what it logs.
\* serde_json::to_string of a Vec<Message> is the JSON array of the batch.
pg_save_append_messages(client, message, ids) ==
    IF ~IsSome(client.pool)
    THEN [ stmt |-> None, logged |-> { "Database pool is not initialized" } ]
    ELSE LET task_path == _parse_task_path(message)
             json == message
         IN  [ stmt |-> Some(_parse_sql_query(ids, json, task_path)),
               logged |-> TaskPathAnomalies(message) ]

\* Faulty variant: a handler without a client writes through a client of
\* its own.
save_append_messages_default_client(handler, messages, ids) ==
    pg_save_append_messages([ pool |-> Some("PgPool") ], messages, ids)

\* AiMessageHandler::save_append_messages: the client's write when a client
\* is configured, else nothing.
save_append_messages(handler, messages, ids) ==
    IF IsSome(handler.database_client)
    THEN pg_save_append_messages(Unwrap(handler.database_client), messages, ids)
    ELSE [ stmt |-> None, logged |-> {} ]

\* Faulty variant: the client's failure handed back to the caller.
save_append_messages_propagating(outcome) ==
    IF outcome = "failed" THEN "Err" ELSE "Ok"

\* AiMessageHandler::save_append_messages returns Ok(()) whatever the
\* client's write did: the client's method returns (), its errors are logged.
save_append_messages_result(outcome) == "Ok"

\* The flat_map/collect of save_completion_req.
RECURSIVE Collected(_, _, _, _)
Collected(messages, ids, request, language_model_args) ==
    IF messages = << >> THEN << >>
    ELSE map_from_completion_request(Head(messages), ids, Some(request),
                                     language_model_args)
         \o Collected(Tail(messages), ids, request, language_model_args)

\* Faulty variant: only the first message of the request is submitted.
save_completion_req_first_only(request_message, ids, language_model_args) ==
    Some(Collected(SubSeq(request_message.messages, 1, 1), ids,
                   request_message, language_model_args))

\* AiMessageHandler::save_completion_req: the batch it appends.
save_completion_req(request_message, ids, language_model_args) ==
    Some(Collected(request_message.messages, ids, request_message,
                   language_model_args))

\* AiMessageHandler::save_completion_event: the batch it appends, None when
\* the event maps to no message.
save_completion_event(request_message, ids, language_model_request, language_model_args) ==
    LET msg == map_from_completion_event(request_message, ids.checkpoint_id,
                                         Some(language_model_request),
                                         language_model_args)
    IN  IF IsSome(msg) THEN Some(<< Unwrap(msg) >>) ELSE None

----------------------------------------------------------------------------
(* The stream tap (mod.rs).  A stream is the upstream producer and the     *)
(* Inspect combinators wrapped around it, innermost first.                 *)

Stream(upstream) == [ inner |-> upstream, taps |-> << >> ]

\* StreamExt::inspect: wraps the stream in an Inspect combinator holding f.
inspect(s, f) == [ s EXCEPT !.taps = Append(@, f) ]

\* Inspect::into_inner: consumes the combinator and returns the stream it
\* wraps; the closure is dropped with the combinator.
into_inner(c) == [ c EXCEPT !.taps = SubSeq(@, 1, Len(@) - 1) ]

\* The move closure of inspect_stream: what it captures.
TapClosure(handler, ids, language_model_request, language_id) ==
    [ handler |-> handler, ids |-> ids, request |-> language_model_request,
      language_id |-> language_id ]

\* AiMessageHandler::inspect_stream
inspect_stream(s, handler, ids, language_model_request, language_id) ==
    into_inner(inspect(s, TapClosure(handler, ids, language_model_request,
                                     language_id)))

\* peek_db
peek_db(stream, message_handler, ids, language_model_request, language_id) ==
    IF IsSome(message_handler)
    THEN inspect_stream(stream, Unwrap(message_handler), ids,
                        language_model_request, language_id)
    ELSE stream

\* The body of the closure on one element: the detached tasks it spawns.
\* Only an Ok element spawns, and the closure returns without awaiting.
ClosureSpawns(f, result, idx) ==
    IF result.ok
    THEN { [ op |-> "event", arg |-> result.ev, ids |-> f.ids,
             request |-> f.request, language_id |-> f.language_id,
             handler |-> f.handler, origin |-> "tap", idx |-> idx ] }
    ELSE {}

\* Faulty variant: a tap that yields only what it could record, an Err element
\* replaced by a status event.
poll_next_swallowing_err(st, result, idx) ==
    [ item |-> IF result.ok THEN result
               ELSE [ ok |-> TRUE, ev |-> [ kind |-> "StatusUpdate" ] ],
      spawns |-> {} ]

\* Stream::poll_next of the stream peek_db returned, when the upstream
\* producer yields result as its element number idx: every Inspect around
\* it runs its closure on a reference to the element and yields the element
\* itself.
poll_next(st, result, idx) ==
    [ item |-> result,
      spawns |-> UNION { ClosureSpawns(st.taps[k], result, idx) :
                         k \in DOMAIN st.taps } ]

\* Faulty variant: the closure blocks on the write it started.
PollAwaitsWrites(inflight) == inflight = EmptyBag

\* Whether the consumer's poll can complete while the given persistence
\* tasks are in flight: smol::spawn(..).detach() hands the task to the
\* executor and returns at once.
PollCompletes(inflight) == TRUE

----------------------------------------------------------------------------
(* Inputs of the model.                                                    *)

T1 == << "t", "1" >>

TQuote == << "t", "'", "x" >>

P1 == << "p", "1" >>

P2 == << "p", "2" >>

S1 == << "s", "1" >>

S2 == << "s", "2" >>

C1 == << "c", "1" >>

C2 == << "c", "2" >>

ModelId == << "g", "p", "t" >>

RequestIds(thread_id, prompt_id, session_id, checkpoint_id) ==
    [ thread_id |-> thread_id, prompt_id |-> prompt_id,
      session_id |-> session_id, checkpoint_id |-> checkpoint_id ]

\* The identity the tapped stream was created with.
TapIds == RequestIds(T1, P1, S1, C1)

\* The tap's key under another prompt and session.
OtherPromptIds == RequestIds(T1, P2, S2, C1)

\* Another checkpoint of the tap's thread.
OtherCheckpointIds == RequestIds(T1, P1, S1, C2)

\* A thread id holding an apostrophe.
QuoteIds == RequestIds(TQuote, P1, S1, C1)

\* An identity whose checkpoint_id is the empty string.
EmptyCheckpointIds == RequestIds(T1, P1, S1, TxtEmpty)

TextPart(text) == [ kind |-> "Text", text |-> text ]

RequestMessage(role, content) == [ role |-> role, content |-> content ]

LanguageModelRequest(messages, temperature, intent, mode, prompt_id) ==
    [ messages |-> messages, temperature |-> temperature, intent |-> intent,
      mode |-> mode, prompt_id |-> prompt_id ]

\* The request whose completion stream is tapped.
TapRequest ==
    LanguageModelRequest(<< RequestMessage("User", << TextPart(TxtHi) >>) >>,
                         None, Some(UserPrompt), None, Some(P1))

\* A summarization request of two messages.
SummaryRequest ==
    LanguageModelRequest(
        << RequestMessage("System", << TextPart(TxtHi) >>),
           RequestMessage("User", << TextPart(TxtIts) >>) >>,
        None, Some(ThreadSummarization), None, None)

Text(text) == [ kind |-> "Text", text |-> text ]

StatusUpdate == [ kind |-> "StatusUpdate" ]

UsageUpdate == [ kind |-> "UsageUpdate" ]

Ok(ev) == [ ok |-> TRUE, ev |-> ev ]

Err == [ ok |-> FALSE ]

\* Elements the upstream producer can yield.
StreamItems == { Err, Ok(Text(TxtHi)), Ok(StatusUpdate) }

\* Inputs of the direct calls of save_completion_event: << event, ids >>.
CallEvents ==
    { << Text(TxtIts), TapIds >>, << Text(TxtIts), OtherPromptIds >>,
      << Text(TxtHi), OtherCheckpointIds >>, << Text(TxtHi), QuoteIds >>,
      << UsageUpdate, TapIds >>, << Text(TxtHi), EmptyCheckpointIds >> }

\* Inputs of the direct calls of save_completion_req: << request, ids >>.
CallRequests ==
    { << SummaryRequest, TapIds >>, << SummaryRequest, OtherPromptIds >> }

\* AiMessageHandler::new
AiMessageHandler_new(database_client) == [ database_client |-> database_client ]

\* A connected client: PostgresDatabaseClient::new returns pool: Some(..).
ConnectedClient == [ pool |-> Some("PgPool") ]

\* Faulty variant: the pool is built lazily and the schema initialized on
\* first use, so construction always succeeds.
PostgresDatabaseClient_new_lazy(connects, schema_ok) ==
    [ ok |-> TRUE, client |-> [ pool |-> Some("PgPool") ] ]

\* PostgresDatabaseClient::new, given whether connect(..) succeeds and
\* whether initialize_schema does: each failure leaves through its ?
\* operator, and Ok(Self { .. }) is reached only past both.
PostgresDatabaseClient_new(connects, schema_ok) ==
    IF ~connects THEN [ ok |-> FALSE, err |-> "connect" ]
    ELSE IF ~schema_ok THEN [ ok |-> FALSE, err |-> "initialize_schema" ]
    ELSE [ ok |-> TRUE, client |-> ConnectedClient ]

\* struct MessageHandlerConfig
MessageHandlerConfig(postgres_connection_string, enable_storage) ==
    [ postgres_connection_string |-> postgres_connection_string,
      enable_storage |-> enable_storage ]

PostgresUrl == << "p", "g" >>

\* MessageHandlerConfig::default() and a configuration naming a database.
Configs ==
    { MessageHandlerConfig(None, FALSE),
      MessageHandlerConfig(Some(PostgresUrl), TRUE) }


\* struct MessageHandlerRegistry
MessageHandlerRegistry(message_handler) == [ message_handler |-> message_handler ]

\* The state of the connection task behind a registered handler: the task
\* has stored a handler with a client ("done"), or the handler is the one
\* registered without a client ("failed" once the task has ended), or no
\* handler was registered ("none").
ConnectionOf(message_handler) ==
    IF ~IsSome(message_handler) THEN "none"
    ELSE IF IsSome(Unwrap(message_handler).database_client) THEN "done"
    ELSE "failed"

\* A connection task that has ended: the configuration it was spawned
\* under, whether connect and initialize_schema succeeded, what
\* PostgresDatabaseClient::new returned and, for a client that was built,
\* how many elements the stream had yielded by then.
EndedConnection(config, connects, schema_ok, result, at) ==
    [ config |-> config, state |-> IF result.ok THEN "done" ELSE "failed",
      connects |-> connects, schema_ok |-> schema_ok, result |-> result,
      at |-> IF result.ok THEN at ELSE 0 ]

\* The connection task behind a registered handler.
ConnectionsOf(message_handler) ==
    IF ~IsSome(message_handler) THEN << >>
    ELSE IF IsSome(Unwrap(message_handler).database_client)
    THEN << EndedConnection(MessageHandlerConfig(Some(PostgresUrl), TRUE),
                            TRUE, TRUE,
                            PostgresDatabaseClient_new(TRUE, TRUE), 0) >>
    ELSE << EndedConnection(MessageHandlerConfig(Some(PostgresUrl), TRUE),
                            FALSE, FALSE,
                            PostgresDatabaseClient_new(FALSE, FALSE), 0) >>

Handlers ==
    { None, Some(AiMessageHandler_new(None)),
      Some(AiMessageHandler_new(Some(ConnectedClient))) }

----------------------------------------------------------------------------
(* State.                                                                  *)

VARIABLES
    message_handler,  \* the Option<Arc<AiMessageHandler>> the caller holds
    source,           \* the elements the upstream producer has yielded
    tapped,           \* the stream peek_db returned
    delivered,        \* the elements the consumer has received, in order
    tasks,            \* append operations started and not yet finished
    launched,         \* how many append operations were started
    table,            \* the rows of ide_checkpoints
    clock,            \* the server's now()
    commits,          \* history: the committed statements, in commit order
    returned,         \* history: results save_append_messages returned
    logged,           \* history: the errors logged
    tapSpawned,       \* history: the stream positions whose element made the
                      \* tap spawn a task, one entry per task spawned
    mapIn,            \* the arguments of a call of the mapper
    mapDone,          \* whether that call has returned
    mapOut,           \* what it returned
    registry,         \* the App's MessageHandlerRegistry global, if set
    connect,          \* how far the store connection has got
    connections,      \* history: the connection tasks init_message_handler
                      \* spawned, in spawn order, and how each ended
    failures          \* history: the failed writes, in order

vars ==
    << message_handler, source, tapped, delivered, tasks, launched, table,
       clock, commits, returned, logged, tapSpawned, mapIn, mapDone, mapOut, registry, connect, connections, failures >>

\* No call of the mapper is under way.
MapIdle ==
    /\ mapIn = [ op |-> "none" ]
    /\ mapDone = FALSE
    /\ mapOut = None

Init ==
    /\ MapIdle
    /\ message_handler \in Handlers
    /\ source = << >>
    /\ tapped = peek_db(Stream("upstream"), message_handler, TapIds,
                        TapRequest, ModelId)
    /\ delivered = << >>
    /\ tasks = EmptyBag
    /\ launched = 0
    /\ table = {}
    /\ clock = 1
    /\ commits = << >>
    /\ returned = {}
    /\ logged = {}
    /\ tapSpawned = << >>
    /\ failures = << >>
    /\ registry = Some(MessageHandlerRegistry(message_handler))
    /\ connect = ConnectionOf(message_handler)
    /\ connections = ConnectionsOf(message_handler)

\* Two identities address the same document.
SameKey(a, b) == a.thread_id = b.thread_id /\ a.checkpoint_id = b.checkpoint_id

\* The batch the task hands to save_append_messages, if it gets that far.
TaskBatch(t) ==
    IF t.op = "event"
    THEN save_completion_event(t.arg, t.ids, t.request, t.language_id)
    ELSE save_completion_req(t.arg, t.ids, t.language_id)

\* Faulty variant: the write goes through the handler registered at the
\* time of the write, not the one the task was started with.
TaskOutcomeRegistered(t) ==
    IF IsSome(TaskBatch(t)) /\ IsSome(registry)
       /\ IsSome(Unwrap(registry).message_handler)
    THEN save_append_messages(Unwrap(Unwrap(registry).message_handler),
                              Unwrap(TaskBatch(t)), t.ids)
    ELSE [ stmt |-> None, logged |-> {} ]

\* What the task's save_append_messages does up to the statement it sends.
TaskOutcome(t) ==
    IF IsSome(TaskBatch(t))
    THEN save_append_messages(t.handler, Unwrap(TaskBatch(t)), t.ids)
    ELSE [ stmt |-> None, logged |-> {} ]

\* The consumer polls the stream peek_db returned; the upstream producer
\* yields its next element, the Inspect combinators around it, if any, run,
\* and the consumer receives the element.
PollNext ==
    /\ Len(source) < MaxStream
    /\ PollCompletes(tasks)
    /\ \E result \in StreamItems :
         LET r == poll_next(tapped, result, Len(source) + 1)
         IN  /\ source' = Append(source, result)
             /\ delivered' = Append(delivered, r.item)
             /\ tasks' = tasks (+) SetToBag(r.spawns)
             /\ launched' = launched + Cardinality(r.spawns)
             /\ tapSpawned' = tapSpawned
                              \o [ k \in 1..Cardinality(r.spawns) |->
                                     Len(source) + 1 ]
    /\ UNCHANGED << message_handler, tapped, table, clock, commits, returned,
                    logged, mapIn, mapDone, mapOut, registry, connect, connections, failures >>

\* A caller starts handler.save_completion_event(event, ids, request, args).
CallSaveCompletionEvent ==
    /\ IsSome(message_handler)
    /\ launched < MaxWrites
    /\ \E c \in CallEvents :
         tasks' = tasks (+) SetToBag(
             { [ op |-> "event", arg |-> c[1], ids |-> c[2],
                 request |-> TapRequest, language_id |-> ModelId,
                 handler |-> Unwrap(message_handler), origin |-> "call",
                 idx |-> 0 ] })
    /\ launched' = launched + 1
    /\ UNCHANGED << message_handler, source, tapped, delivered, table,
                    clock, commits, returned, logged, tapSpawned, mapIn,
                    mapDone, mapOut, registry, connect, connections, failures >>

\* A caller starts handler.save_completion_req(request, ids, args).
CallSaveCompletionReq ==
    /\ IsSome(message_handler)
    /\ launched < MaxWrites
    /\ \E c \in CallRequests :
         tasks' = tasks (+) SetToBag(
             { [ op |-> "req", arg |-> c[1], ids |-> c[2], request |-> c[1],
                 language_id |-> ModelId, handler |-> Unwrap(message_handler),
                 origin |-> "call", idx |-> 0 ] })
    /\ launched' = launched + 1
    /\ UNCHANGED << message_handler, source, tapped, delivered, table,
                    clock, commits, returned, logged, tapSpawned, mapIn,
                    mapDone, mapOut, registry, connect, connections, failures >>

\* A started operation runs to its end without sending a statement: its
\* event maps to no message, or the handler has no client, or no pool.
RunNoWrite ==
    \E t \in BagToSet(tasks) :
        LET o == TaskOutcome(t)
        IN  /\ ~IsSome(o.stmt)
            /\ tasks' = tasks (-) SetToBag({ t })
            /\ returned' = IF IsSome(TaskBatch(t))
                           THEN returned
                                \cup { save_append_messages_result("none") }
                           ELSE returned
            /\ logged' = logged \cup o.logged
            /\ UNCHANGED << message_handler, source, tapped, delivered,
                            launched, table, clock, commits, tapSpawned,
                            mapIn, mapDone, mapOut, registry, connect, connections, failures >>

\* The server executes a started operation's statement and commits it.
Commit ==
    \E t \in BagToSet(tasks) :
        LET o == TaskOutcome(t)
        IN  /\ IsSome(o.stmt)
            /\ ~Malformed(Unwrap(o.stmt))
            /\ table' = Upsert(table, Unwrap(o.stmt), clock)
            /\ commits' = Append(commits,
                  [ origin |-> t.origin, idx |-> t.idx, ids |-> t.ids,
                    op |-> t.op, arg |-> t.arg,
                    sent |-> Unwrap(TaskBatch(t)),
                    stored |-> Unwrap(o.stmt).append, ts |-> clock,
                    racing |-> \E u \in BagToSet(tasks (-) SetToBag({ t })) :
                                  SameKey(u.ids, t.ids) ])
            /\ clock' = clock + 1
            /\ tasks' = tasks (-) SetToBag({ t })
            /\ returned' = returned
                           \cup { save_append_messages_result("committed") }
            /\ logged' = logged \cup o.logged
            /\ UNCHANGED << message_handler, source, tapped, delivered,
                            launched, tapSpawned, mapIn, mapDone, mapOut, registry, connect, connections, failures >>

\* A started operation's statement fails: the server rejects it, or no
\* connection is acquired within the pool's timeout.  The error is logged
\* and the batch dropped.
Fail ==
    \E t \in BagToSet(tasks) :
        LET o == TaskOutcome(t)
        IN  /\ IsSome(o.stmt)
            /\ tasks' = tasks (-) SetToBag({ t })
            /\ returned' = returned
                           \cup { save_append_messages_result("failed") }
            /\ logged' = logged \cup o.logged \cup { "Found sql err" }
            /\ table' = ExecuteErr(table, Unwrap(o.stmt), clock)
            /\ failures' = Append(failures,
                  [ ids |-> t.ids, after |-> Len(commits) ])
            /\ UNCHANGED << message_handler, source, tapped, delivered,
                            launched, clock, commits, tapSpawned,
                            mapIn, mapDone, mapOut, registry, connect, connections >>

Next ==
    \/ PollNext
    \/ CallSaveCompletionEvent
    \/ CallSaveCompletionReq
    \/ RunNoWrite
    \/ Commit
    \/ Fail

Spec == Init /\ [][Next]_vars

\* The steps of a run in which the store stays available and no write
\* fails.
LiveNext ==
    \/ PollNext
    \/ CallSaveCompletionEvent
    \/ CallSaveCompletionReq
    \/ RunNoWrite
    \/ Commit

\* Such a run under fair scheduling: the consumer polls the stream to its
\* end, and the executor runs every detached task smol::spawn handed to it.
LiveSpec ==
    /\ Init
    /\ [][LiveNext]_vars
    /\ WF_vars(PollNext)
    /\ WF_vars(RunNoWrite)
    /\ WF_vars(Commit)

----------------------------------------------------------------------------
(* The mapper on its own: one call of map_from_completion_event or of      *)
(* map_from_completion_request on arguments drawn from the sets below.     *)

Signature == << "s", "i", "g" >>

ToolId == << "u", "1" >>

Grep == << "g", "r", "e", "p" >>

Normal == << "N", "o", "r", "m", "a", "l" >>

RawInput == << "{", "}" >>

Thinking(text, signature) ==
    [ kind |-> "Thinking", text |-> text, signature |-> signature ]

Stop(reason) == [ kind |-> "Stop", reason |-> reason ]

ToolUse(tool_use) == [ kind |-> "ToolUse", tool_use |-> tool_use ]

StatusUpdateOf(status) == [ kind |-> "StatusUpdate", status |-> status ]

StartMessage(message_id) == [ kind |-> "StartMessage", message_id |-> message_id ]

UsageUpdateOf(usage) == [ kind |-> "UsageUpdate", usage |-> usage ]

ToolUses ==
    [ id : { ToolId, TxtEmpty }, name : { Grep }, raw_input : { RawInput },
      input : { [ bad |-> FALSE, json |-> RawInput ],
                [ bad |-> TRUE, json |-> RawInput ] },
      is_input_complete : BOOLEAN ]

\* The event kinds of LanguageModelCompletionEvent.
EventKinds ==
    { "StatusUpdate", "StartMessage", "Text", "Thinking", "Stop", "ToolUse",
      "UsageUpdate" }

MapEvents ==
    { Text(t) : t \in { TxtHi, TxtIts, TxtEmpty } }
    \cup { Thinking(t, g) : t \in { TxtHi, TxtEmpty },
                            g \in { None, Some(Signature) } }
    \cup { Stop(r) : r \in { "EndTurn", "MaxTokens", "ToolUse" } }
    \cup { ToolUse(u) : u \in ToolUses }
    \cup { StatusUpdateOf(x) : x \in { "Queued", "Started" } }
    \cup { StartMessage(ToolId) }
    \cup { UsageUpdateOf([ input_tokens |-> n, output_tokens |-> n ]) :
             n \in 0..1 }

\* The request contexts: none, or a request with each field set or not.
MapMetadata ==
    { None }
    \cup { Some(LanguageModelRequest(<< >>, t, i, m, p)) :
             t \in { None, Some(F32(1)), Some(NaN) },
             i \in { None, Some(UserPrompt), Some(ThreadSummarization) },
             m \in { None, Some(Normal) },
             p \in { None, Some(P1) } }

MapRequestMessages ==
    { RequestMessage(r, c) :
        r \in { "User", "System", "Assistant" },
        c \in { << >>, << TextPart(TxtHi) >>,
                << TextPart(TxtIts), TextPart(TxtHi) >>,
                << [ kind |-> "Unserializable" ] >> } }

MapInputs ==
    { [ op |-> "event", event |-> e, thread_id |-> t, metadata |-> m ] :
        e \in MapEvents, t \in { C1, TxtEmpty }, m \in MapMetadata }
    \cup
    { [ op |-> "request", message |-> r, ids |-> i, metadata |-> m ] :
        r \in MapRequestMessages,
        i \in { TapIds, QuoteIds, RequestIds(TxtEmpty, P1, S1, C1) },
        m \in MapMetadata }

MapInit ==
    /\ mapIn \in MapInputs
    /\ mapDone = FALSE
    /\ mapOut = None
    /\ message_handler = None
    /\ source = << >>
    /\ tapped = peek_db(Stream("upstream"), message_handler, TapIds,
                        TapRequest, ModelId)
    /\ delivered = << >>
    /\ tasks = EmptyBag
    /\ launched = 0
    /\ table = {}
    /\ clock = 1
    /\ commits = << >>
    /\ returned = {}
    /\ logged = {}
    /\ tapSpawned = << >>
    /\ failures = << >>
    /\ registry = Some(MessageHandlerRegistry(message_handler))
    /\ connect = ConnectionOf(message_handler)
    /\ connections = ConnectionsOf(message_handler)

\* map_from_completion_event is called and returns.
MapEvent ==
    /\ mapIn.op = "event"
    /\ ~mapDone
    /\ mapOut' = map_from_completion_event(mapIn.event, mapIn.thread_id,
                                           mapIn.metadata, ModelId)
    /\ mapDone' = TRUE
    /\ UNCHANGED << mapIn, message_handler, source, tapped, delivered, tasks,
                    launched, table, clock, commits, returned, logged,
                    tapSpawned, registry, connect, connections, failures >>

\* map_from_completion_request is called and returns.
MapRequest ==
    /\ mapIn.op = "request"
    /\ ~mapDone
    /\ mapOut' = map_from_completion_request(mapIn.message, mapIn.ids,
                                             mapIn.metadata, ModelId)
    /\ mapDone' = TRUE
    /\ UNCHANGED << mapIn, message_handler, source, tapped, delivered, tasks,
                    launched, table, clock, commits, returned, logged,
                    tapSpawned, registry, connect, connections, failures >>

MapNext ==
    \/ MapEvent
    \/ MapRequest

MapSpec == MapInit /\ [][MapNext]_vars

----------------------------------------------------------------------------
(* The client's write on its own: one call of the client's                 *)
(* save_append_messages on a batch drawn from the set below, which         *)
(* classifies the batch and sends the statement.                           *)

\* The response_metadata of the messages of a batch: no intent, one of the
\* intents the classifier knows, another intent, an intent that is not a
\* string.
BatchMetadata ==
    LET base == build_response_metadata(None, ModelId)
    IN  { base, Insert(base, "intent", JStr(ThreadSummarization)),
          Insert(base, "intent", JStr(ThreadContextSummarization)),
          Insert(base, "intent", JStr(UserPrompt)),
          Insert(base, "intent", JNum(1)) }

BatchMessages ==
    { Ai(ContentValue_new(TxtHi), C1, Some(ZedIdeAgent), FALSE, None, None,
         EmptyMap, rm) : rm \in BatchMetadata }

Batches == UNION { [ 1..n -> BatchMessages ] : n \in 0..MaxBatch }

ClassifyInit ==
    /\ mapIn \in { [ op |-> "classify", batch |-> b ] : b \in Batches }
    /\ mapDone = FALSE
    /\ mapOut = None
    /\ message_handler = Some(AiMessageHandler_new(Some(ConnectedClient)))
    /\ source = << >>
    /\ tapped = peek_db(Stream("upstream"), message_handler, TapIds,
                        TapRequest, ModelId)
    /\ delivered = << >>
    /\ tasks = EmptyBag
    /\ launched = 0
    /\ table = {}
    /\ clock = 1
    /\ commits = << >>
    /\ returned = {}
    /\ logged = {}
    /\ tapSpawned = << >>
    /\ failures = << >>
    /\ registry = Some(MessageHandlerRegistry(message_handler))
    /\ connect = ConnectionOf(message_handler)
    /\ connections = ConnectionsOf(message_handler)

\* The client's save_append_messages is called on the batch and returns:
\* the batch is classified, the statement sent, and execute returns Ok or
\* Err.
ClientSaveAppendMessages ==
    /\ mapIn.op = "classify"
    /\ ~mapDone
    /\ LET client == Unwrap(Unwrap(message_handler).database_client)
           o == pg_save_append_messages(client, mapIn.batch, TapIds)
       IN  /\ mapOut' = [ label |-> _parse_task_path(mapIn.batch),
                          stmt |-> o.stmt, logged |-> o.logged ]
           /\ \E sql_res \in { "Ok", "Err" } :
                 IF ~IsSome(o.stmt)
                 THEN /\ logged' = logged \cup o.logged
                      /\ UNCHANGED << table, commits, clock, failures >>
                 ELSE IF sql_res = "Ok" /\ ~Malformed(Unwrap(o.stmt))
                 THEN /\ table' = Upsert(table, Unwrap(o.stmt), clock)
                      /\ commits' = Append(commits,
                            [ origin |-> "client", idx |-> 0, ids |-> TapIds,
                              op |-> "client", arg |-> mapIn.batch,
                              sent |-> mapIn.batch,
                              stored |-> Unwrap(o.stmt).append, ts |-> clock,
                              racing |-> FALSE ])
                      /\ clock' = clock + 1
                      /\ logged' = logged \cup o.logged
                      /\ UNCHANGED failures
                 ELSE /\ table' = ExecuteErr(table, Unwrap(o.stmt), clock)
                      /\ failures' = Append(failures,
                            [ ids |-> TapIds, after |-> Len(commits) ])
                      /\ logged' = logged \cup o.logged
                                          \cup { "Found sql err" }
                      /\ UNCHANGED << commits, clock >>
    /\ mapDone' = TRUE
    /\ UNCHANGED << mapIn, message_handler, source, tapped, delivered, tasks,
                    launched, returned, tapSpawned, registry, connect, connections >>

ClassifyNext == ClientSaveAppendMessages

ClassifySpec == ClassifyInit /\ [][ClassifyNext]_vars

----------------------------------------------------------------------------
(* The registry (registry.rs): init_message_handler registers a handler    *)
(* without a client and spawns the connection task; the stream is opened   *)
(* with whatever handler get_message_handler returns at that moment.       *)

\* get_message_handler: the handler of the registry global.
get_message_handler(reg) == Unwrap(reg).message_handler

\* Faulty variant: every call registers a fresh handler without a client
\* and spawns a connection task.
init_message_handler_unconditional(config, reg) ==
    [ registry |->
        Some(MessageHandlerRegistry(Some(AiMessageHandler_new(None)))),
      spawned |-> TRUE ]

\* init_message_handler up to the spawn: it returns at once when a handler
\* with a client is registered, else registers AiMessageHandler::new(None)
\* and spawns the connection task.
init_message_handler(config, reg) ==
    IF /\ IsSome(reg)
       /\ IsSome(get_message_handler(reg))
       /\ IsSome(Unwrap(get_message_handler(reg)).database_client)
    THEN [ registry |-> reg, spawned |-> FALSE ]
    ELSE [ registry |->
             Some(MessageHandlerRegistry(Some(AiMessageHandler_new(None)))),
           spawned |-> TRUE ]

\* What the server does to a connection task: << connect succeeds,
\* initialize_schema succeeds >>; the schema is not touched when the
\* connect fails.
ConnectOutcomes == { << FALSE, FALSE >>, << TRUE, FALSE >>, << TRUE, TRUE >> }

\* No stream has been opened yet.
NoStream == Stream("none")

\* The consumer has dropped the stream it opened.
Dropped == Stream("dropped")

\* The registered handler holds a database client.
RegisteredClient(reg) ==
    /\ IsSome(reg)
    /\ IsSome(get_message_handler(reg))
    /\ IsSome(Unwrap(get_message_handler(reg)).database_client)

\* How far the store connection has got: a handler with a client is
\* registered, or a connection task is running, or all have failed, or none
\* was spawned.
ConnectionStatus(reg, conns) ==
    IF RegisteredClient(reg) THEN "done"
    ELSE IF \E k \in DOMAIN conns : conns[k].state = "pending" THEN "pending"
    ELSE IF conns # << >> THEN "failed"
    ELSE "none"

RegInit ==
    /\ MapIdle
    /\ registry = None
    /\ connect = "none"
    /\ connections = << >>
    /\ message_handler = None
    /\ source = << >>
    /\ tapped = NoStream
    /\ delivered = << >>
    /\ tasks = EmptyBag
    /\ launched = 0
    /\ table = {}
    /\ clock = 1
    /\ commits = << >>
    /\ returned = {}
    /\ logged = {}
    /\ tapSpawned = << >>
    /\ failures = << >>

\* init_message_handler is called, also while connection tasks of earlier
\* calls are running.
InitMessageHandler ==
    /\ \E config \in Configs :
         LET r == init_message_handler(config, registry)
             conns == IF r.spawned
                      THEN Append(connections,
                                  [ config |-> config, state |-> "pending" ])
                      ELSE connections
         IN  /\ r.spawned => Len(connections) < MaxConnects
             /\ registry' = r.registry
             /\ connections' = conns
             /\ connect' = ConnectionStatus(r.registry, conns)
    /\ UNCHANGED << message_handler, source, tapped, delivered, tasks,
                    launched, table, clock, commits, returned, logged,
                    tapSpawned, mapIn, mapDone, mapOut, failures >>

\* A connection task: PostgresDatabaseClient::new returns Err (no database
\* reachable, or the schema cannot be initialized) and the task ends at the
\* ? operator, the registry untouched.
ConnectFails ==
    /\ \E k \in DOMAIN connections, outcome \in ConnectOutcomes :
         LET connects == outcome[1]
             schema_ok == outcome[2]
             r == PostgresDatabaseClient_new(connects, schema_ok)
             conns == [ connections EXCEPT ![k] =
                          EndedConnection(@.config, connects, schema_ok, r,
                                          Len(source)) ]
         IN  /\ connections[k].state = "pending"
             /\ ~r.ok
             /\ connections' = conns
             /\ connect' = ConnectionStatus(registry, conns)
    /\ UNCHANGED << registry, message_handler, source, tapped, delivered,
                    tasks, launched, table, clock, commits, returned, logged,
                    tapSpawned, mapIn, mapDone, mapOut, failures >>

\* A connection task: the client is built and the registry's handler
\* replaced by one holding it.
ConnectSucceeds ==
    /\ \E k \in DOMAIN connections, outcome \in ConnectOutcomes :
         LET connects == outcome[1]
             schema_ok == outcome[2]
             r == PostgresDatabaseClient_new(connects, schema_ok)
             conns == [ connections EXCEPT ![k] =
                          EndedConnection(@.config, connects, schema_ok, r,
                                          Len(source)) ]
             reg == Some(MessageHandlerRegistry(
                        Some(AiMessageHandler_new(Some(r.client)))))
         IN  /\ connections[k].state = "pending"
             /\ r.ok
             /\ connections' = conns
             /\ registry' = reg
             /\ connect' = ConnectionStatus(reg, conns)
    /\ UNCHANGED << message_handler, source, tapped, delivered, tasks,
                    launched, table, clock, commits, returned, logged,
                    tapSpawned, mapIn, mapDone, mapOut, failures >>

\* A completion stream is opened: the caller takes the registered handler
\* and wraps the stream with peek_db.
OpenStream ==
    /\ IsSome(registry)
    /\ tapped = NoStream
    /\ message_handler' = get_message_handler(registry)
    /\ tapped' = peek_db(Stream("upstream"), message_handler', TapIds,
                         TapRequest, ModelId)
    /\ UNCHANGED << registry, connect, connections, source, delivered, tasks,
                    launched, table, clock, commits, returned, logged,
                    tapSpawned, mapIn, mapDone, mapOut, failures >>

\* The consumer polls the stream it opened.
PollOpened ==
    /\ tapped \notin { NoStream, Dropped }
    /\ PollNext

\* The consumer drops the stream it opened: the stream and what it owns
\* are released, the tasks handed to the executor are not.
DropStream ==
    /\ tapped \notin { NoStream, Dropped }
    /\ tapped' = Dropped
    /\ UNCHANGED << registry, connect, connections, message_handler, source,
                    delivered, tasks, launched, table, clock, commits,
                    returned, logged, tapSpawned, mapIn, mapDone, mapOut,
                    failures >>

\* The holder of the stream's handler starts save_completion_event on a
\* text event under the stream's identity.
CallEventOnOpened ==
    /\ IsSome(message_handler)
    /\ launched < MaxWrites
    /\ tasks' = tasks (+) SetToBag(
         { [ op |-> "event", arg |-> Text(TxtHi), ids |-> TapIds,
             request |-> TapRequest, language_id |-> ModelId,
             handler |-> Unwrap(message_handler), origin |-> "call",
             idx |-> 0 ] })
    /\ launched' = launched + 1
    /\ UNCHANGED << message_handler, source, tapped, delivered, table,
                    clock, commits, returned, logged, tapSpawned, mapIn,
                    mapDone, mapOut, registry, connect, connections,
                    failures >>

RegNext ==
    \/ InitMessageHandler
    \/ ConnectFails
    \/ ConnectSucceeds
    \/ OpenStream
    \/ PollOpened
    \/ DropStream
    \/ CallEventOnOpened
    \/ RunNoWrite
    \/ Commit
    \/ Fail

RegistrySpec == RegInit /\ [][RegNext]_vars

----------------------------------------------------------------------------
(* Serialization on its own: a ContentValue is serialized and parsed back, *)
(* or a Message is serialized.                                             *)

TxtQuoted == << "a", "\"", "b" >>

TxtBackslash == << "\\" >>

TxtBrackets == << "]", ",", "[" >>

SerdeTexts == { TxtHi, TxtIts, TxtEmpty, TxtQuoted, TxtBackslash, TxtBrackets }

ContentValues ==
    { ContentValue_new(t) : t \in SerdeTexts }
    \cup { ContentValue_from_vec(ts) :
             ts \in UNION { [ 1..n -> SerdeTexts ] : n \in 0..MaxTexts } }

\* A mapping that is set: one entry.
SomeMap == Insert(EmptyMap, "k", JStr(TxtHi))

SerdeContents == { ContentValue_new(TxtHi), ContentValue_from_vec(<< TxtHi, TxtIts >>) }

SerdeMessages ==
    { Human(c, C1, n, FALSE, k, k) :
        c \in SerdeContents, n \in { None, Some(ZedIdeAgent) },
        k \in { EmptyMap, SomeMap } }
    \cup { System(c, C1, n, FALSE, k, k) :
             c \in SerdeContents, n \in { None, Some(ZedIdeAgent) },
             k \in { EmptyMap, SomeMap } }
    \cup { Ai(c, C1, n, FALSE, i, tc, k, k) :
             c \in SerdeContents, n \in { None, Some(ZedIdeAgent) },
             i \in { None, Some(SomeMap) }, tc \in { None, Some(SomeMap) },
             k \in { EmptyMap, SomeMap } }
    \cup { Tool(c, C1, n, FALSE, ti, tn, k, k) :
             c \in SerdeContents, n \in { None, Some(ZedIdeAgent) },
             ti \in { None, Some(ToolId) }, tn \in { None, Some(Grep) },
             k \in { EmptyMap, SomeMap } }
    \cup { Function(c, C1, n, FALSE, f, k, k) :
             c \in SerdeContents, n \in { None, Some(ZedIdeAgent) },
             f \in { None, Some(SomeMap) }, k \in { EmptyMap, SomeMap } }

SerdeInputs ==
    { [ op |-> "content", value |-> c ] : c \in ContentValues }
    \cup { [ op |-> "message", message |-> m ] : m \in SerdeMessages }

SerdeInit ==
    /\ mapIn \in SerdeInputs
    /\ mapDone = FALSE
    /\ mapOut = None
    /\ message_handler = None
    /\ source = << >>
    /\ tapped = peek_db(Stream("upstream"), message_handler, TapIds,
                        TapRequest, ModelId)
    /\ delivered = << >>
    /\ tasks = EmptyBag
    /\ launched = 0
    /\ table = {}
    /\ clock = 1
    /\ commits = << >>
    /\ returned = {}
    /\ logged = {}
    /\ tapSpawned = << >>
    /\ failures = << >>
    /\ registry = Some(MessageHandlerRegistry(message_handler))
    /\ connect = ConnectionOf(message_handler)
    /\ connections = ConnectionsOf(message_handler)

\* A ContentValue is serialized and the text parsed back.
RoundTripContent ==
    /\ mapIn.op = "content"
    /\ ~mapDone
    /\ LET serialized == serialize_content(mapIn.value)
       IN  mapOut' = [ serialized |-> serialized,
                       parsed |-> from_str_content(serialized) ]
    /\ mapDone' = TRUE
    /\ UNCHANGED << mapIn, message_handler, source, tapped, delivered, tasks,
                    launched, table, clock, commits, returned, logged,
                    tapSpawned, registry, connect, connections, failures >>

\* A Message is serialized.
SerializeMessage ==
    /\ mapIn.op = "message"
    /\ ~mapDone
    /\ mapOut' = [ serialized |-> serialize_message(mapIn.message) ]
    /\ mapDone' = TRUE
    /\ UNCHANGED << mapIn, message_handler, source, tapped, delivered, tasks,
                    launched, table, clock, commits, returned, logged,
                    tapSpawned, registry, connect, connections, failures >>

SerdeNext ==
    \/ RoundTripContent
    \/ SerializeMessage

SerdeSpec == SerdeInit /\ [][SerdeNext]_vars

----------------------------------------------------------------------------
(* Properties of the stream tap.                                           *)

\* The handler in use writes to a store.
HasStore ==
    /\ IsSome(message_handler)
    /\ IsSome(Unwrap(message_handler).database_client)

\* How often x occurs in the sequence xs.
Occurrences(xs, x) == Cardinality({ k \in DOMAIN xs : xs[k] = x })

\* The element at position i of the source is an Ok event that
\* save_completion_event maps to a message under the tap's context.
MapsToMessage(i) ==
    /\ source[i].ok
    /\ IsSome(save_completion_event(source[i].ev, TapIds, TapRequest, ModelId))

\* C1: the consumer of the stream peek_db returned receives exactly the
\* elements the source yielded, in the same order, none dropped, duplicated
\* or altered.
C1_PassThrough == delivered = source

\* A tapped stream has delivered an Err element and an Ok element.
C1_Witness ==
    /\ IsSome(message_handler)
    /\ Len(delivered) >= 2
    /\ \E i, j \in DOMAIN delivered : ~delivered[i].ok /\ delivered[j].ok

\* C2: on a tapped stream an Err element triggers no persistence write, an
\* Ok element whose event maps to a message triggers exactly one, and an Ok
\* status, start or usage event triggers none.
C2_OneWritePerOkEvent ==
    HasStore =>
        \A i \in DOMAIN source :
            /\ ~source[i].ok => Occurrences(tapSpawned, i) = 0
            /\ MapsToMessage(i) => Occurrences(tapSpawned, i) = 1

\* C3: storage failures never reach the consumer or the caller: whatever the
\* writes did, every append operation returned Ok and the consumer holds the
\* elements the source yielded.
C3_StorageFailuresInvisible ==
    /\ returned \subseteq { "Ok" }
    /\ Len(delivered) = Len(source)
    /\ \A i \in DOMAIN delivered : delivered[i] = source[i]

\* A write has failed, its caller was answered, and the consumer has
\* received elements.
C3_Witness ==
    /\ "Found sql err" \in logged
    /\ returned = { "Ok" }
    /\ Len(delivered) >= 1

C8_TapWritesRace ==
    HasStore =>
        \A i, j \in DOMAIN source :
            (i < j /\ MapsToMessage(i) /\ MapsToMessage(j)) =>
                (Occurrences(tapSpawned, i) >= 1 /\ Occurrences(tapSpawned, j) >= 1)

----------------------------------------------------------------------------
(* Properties of the store.                                                *)

\* The committed writes to the document x addresses, in commit order.
CommitsTo(x) == SelectSeq(commits, LAMBDA c : SameKey(c.ids, x))

\* The concatenation of the batches handed to the committed writes.
RECURSIVE FlattenSent(_)
FlattenSent(cs) ==
    IF cs = << >> THEN << >> ELSE Head(cs).sent \o FlattenSent(Tail(cs))

\* The concatenation of the arrays the committed statements carried.
RECURSIVE FlattenStored(_)
FlattenStored(cs) ==
    IF cs = << >> THEN << >> ELSE Head(cs).stored \o FlattenStored(Tail(cs))

\* C5: after any sequence of committed writes to one key, the document is
\* the concatenation of the committed batches in commit order.
C5_MergeAppend ==
    \A r \in table : r.blob = FlattenSent(CommitsTo(r))

\* C6: a document becomes present with the first committed write to its key
\* and is never absent or shorter afterwards.
C6_PresentStaysPresent ==
    [][ /\ \A r \in table :
             \E r2 \in table' : SameKey(r, r2) /\ Len(r2.blob) >= Len(r.blob)
        /\ Len(commits') > Len(commits) =>
             \E r2 \in table' : SameKey(r2, commits'[Len(commits')].ids)
      ]_vars

\* A present document has taken a second committed write.
C6_Witness == \E r \in table : Len(CommitsTo(r)) >= 2

\* C7: under every interleaving of writes, every committed statement's array
\* is in the document of its key exactly once, contiguous and in order: the
\* document is the concatenation of the committed arrays in commit order.
C7_AtomicUpsert ==
    /\ \A i \in DOMAIN commits : \E r \in table : SameKey(r, commits[i].ids)
    /\ \A r \in table : r.blob = FlattenStored(CommitsTo(r))

\* Two writes to one key were in flight together while the key was absent,
\* and both have committed.
C7_Witness ==
    \E i, j \in DOMAIN commits :
        /\ i < j
        /\ SameKey(commits[i].ids, commits[j].ids)
        /\ commits[i].racing
        /\ \A h \in 1..(i - 1) : ~SameKey(commits[h].ids, commits[i].ids)

\* C9: after every upsert the row carries the write time and the prompt_id
\* and session_id of that write.
C9_RefreshedOnEveryUpsert ==
    \A r \in table :
        LET cs == CommitsTo(r)
            last == cs[Len(cs)]
        IN  /\ r.checkpoint_ts = last.ts
            /\ r.prompt_id = last.ids.prompt_id
            /\ r.session_id = last.ids.session_id

\* C9, amended: the row carries the write time, prompt_id and session_id of
\* the first committed write to its key; later writes change only blob.
C9_SetByFirstWrite ==
    \A r \in table :
        LET first == CommitsTo(r)[1]
        IN  /\ r.checkpoint_ts = first.ts
            /\ r.prompt_id = first.ids.prompt_id
            /\ r.session_id = first.ids.session_id

\* A key has taken a second committed write under another prompt and session.
C9_Witness ==
    \E r \in table :
        LET cs == CommitsTo(r)
        IN  /\ Len(cs) >= 2
            /\ cs[2].ids.prompt_id # cs[1].ids.prompt_id
            /\ cs[2].ids.session_id # cs[1].ids.session_id

\* C19: when no database is reachable a handler is registered all the same,
\* its append operations store nothing, log nothing and return Ok, and a
\* stream opened with it forwards every element.
C19_NoDatabaseNoOp ==
    /\ connect \in { "pending", "failed" } =>
          /\ IsSome(registry)
          /\ get_message_handler(registry) = Some(AiMessageHandler_new(None))
    /\ connect # "done" =>
          /\ table = {}
          /\ commits = << >>
          /\ failures = << >>
          /\ logged = {}
          /\ returned \subseteq { "Ok" }
          /\ delivered = source

\* The connection has failed; a stream opened with the registered handler
\* has forwarded an Err and an Ok element, and an append operation on that
\* handler has returned.
C19_Witness ==
    /\ connect = "failed"
    /\ message_handler = Some(AiMessageHandler_new(None))
    /\ tapped # NoStream
    /\ \E i, j \in DOMAIN delivered : ~delivered[i].ok /\ delivered[j].ok
    /\ launched >= 1
    /\ tasks = EmptyBag
    /\ returned = { "Ok" }

\* C21: PostgresDatabaseClient::new returns Ok exactly when both the connect
\* and the schema initialization succeeded, an Err carries no client, and a
\* client is registered only after a construction that passed both.
C21_StoreOnlyAfterConnectAndSchema ==
    /\ \A k \in DOMAIN connections :
          connections[k].state # "pending" =>
              LET c == connections[k]
              IN  /\ c.result.ok <=> (c.connects /\ c.schema_ok)
                  /\ ~c.result.ok => "client" \notin DOMAIN c.result
                  /\ c.result.ok => IsSome(c.result.client.pool)
                  /\ c.state = "done" <=> c.result.ok
    /\ RegisteredClient(registry) =>
          \E k \in DOMAIN connections :
              /\ connections[k].state = "done"
              /\ connections[k].connects
              /\ connections[k].schema_ok

\* One construction has failed at the connect and one at the schema
\* initialization; no client is registered.
C21_Witness ==
    /\ ~RegisteredClient(registry)
    /\ \E j, k \in DOMAIN connections :
          /\ connections[j].state = "failed"
          /\ connections[k].state = "failed"
          /\ ~connections[j].connects
          /\ connections[k].connects /\ ~connections[k].schema_ok

\* C22: with enable_storage false no store connection is attempted and
\* nothing is written: when every init_message_handler call so far had
\* storage disabled, no connection task was spawned and no write committed.
C22_DisabledStorageNeverConnects ==
    (\A k \in DOMAIN connections : ~connections[k].config.enable_storage) =>
        (connections = << >> /\ commits = << >>)

\* C26 (its premise): when the tapped stream is dropped, every message-bearing
\* event it delivered has launched persistence work, which the drop leaves
\* running.
C26_TapWorkOutlivesDrop ==
    (tapped = Dropped /\ HasStore) =>
        \A i \in DOMAIN source :
            MapsToMessage(i) => Occurrences(tapSpawned, i) >= 1

\* C29: once a handler with a database client is registered one stays
\* registered; init_message_handler called then returns the registry as
\* it is and spawns nothing.
C29_ClientStaysRegistered ==
    /\ [](RegisteredClient(registry) =>
            \A config \in Configs :
                init_message_handler(config, registry) =
                    [ registry |-> registry, spawned |-> FALSE ])
    /\ [][ RegisteredClient(registry) =>
             /\ RegisteredClient(registry')
             /\ Len(connections') = Len(connections) ]_vars

\* Two connection tasks have run, one built a client and one failed, and a
\* handler with a client is registered.
C29_Witness ==
    /\ RegisteredClient(registry)
    /\ Len(connections) = 2
    /\ \E j, k \in DOMAIN connections :
          connections[j].state = "done" /\ connections[k].state = "failed"

\* C30: a stream opened with the handler registered before the connection
\* completed, and the operations started on that handler, store nothing,
\* whatever has been registered since.
C30_TapKeepsItsHandler ==
    (tapped # NoStream /\ message_handler = Some(AiMessageHandler_new(None))) =>
        (table = {} /\ commits = << >> /\ failures = << >>)

\* A stream was opened with the handler without a client, the connection
\* completed, a text event was delivered after that and an operation on the
\* stream's handler has run; nothing is stored.
C30_Witness ==
    /\ RegisteredClient(registry)
    /\ message_handler = Some(AiMessageHandler_new(None))
    /\ \E k \in DOMAIN connections :
          /\ connections[k].state = "done"
          /\ \E i \in DOMAIN delivered :
                /\ i > connections[k].at
                /\ delivered[i] = Ok(Text(TxtHi))
    /\ launched >= 1
    /\ tasks = EmptyBag
    /\ table = {}

\* C23: the document a first write creates is the JSON array of its batch:
\* decoding it gives the messages of the batch with every field unchanged.
C23_BlobIsBatch ==
    \A r \in table :
        Len(CommitsTo(r)) = 1 => r.blob = CommitsTo(r)[1].sent

\* The message variant map_from_completion_request selects for a role.
VariantOf(role) ==
    CASE role = "User" -> "human"
      [] role = "System" -> "system"
      [] role = "Assistant" -> "ai"

\* C27: save_completion_req issues one append per call, whose batch holds
\* one mapped message per request message, in the request's order, under the
\* identity given.
C27_OneShotBatch ==
    /\ Len(commits) + Len(failures) + BagCardinality(tasks) <= launched
    /\ \A k \in DOMAIN commits :
          commits[k].op = "req" =>
              LET c == commits[k]
                  msgs == c.arg.messages
              IN  /\ Len(c.sent) = Len(msgs)
                  /\ \A i \in DOMAIN msgs :
                        /\ c.sent[i].type = VariantOf(msgs[i].role)
                        /\ c.sent[i].content =
                              [ shape |-> "Single",
                                text |-> to_string_content(msgs[i].content) ]
                        /\ c.sent[i].id = c.ids.thread_id
                  /\ \E r \in table : SameKey(r, c.ids)

\* save_completion_req has committed a request of two messages.
C27_Witness ==
    \E k \in DOMAIN commits :
        /\ commits[k].op = "req"
        /\ Len(commits[k].arg.messages) = 2
        /\ Len(commits[k].sent) = 2
        /\ tasks = EmptyBag

\* C28: there is at most one document per (thread_id, checkpoint_id), and a
\* step changes no document other than the one under the pair of the write
\* committed in it.
C28_WriteTouchesOnlyItsKey ==
    /\ [](\A r1, r2 \in table : SameKey(r1, r2) => r1 = r2)
    /\ [][ \A r \in table :
             (\/ commits' = commits
              \/ ~SameKey(r, commits'[Len(commits')].ids)) => r \in table'
         ]_vars

\* Two checkpoints of one thread hold a document each, the second written
\* while the first was present.
C28_Witness ==
    \E r1, r2 \in table :
        /\ r1.thread_id = r2.thread_id
        /\ r1.checkpoint_id # r2.checkpoint_id
        /\ Len(commits) = 2

\* C20: a failed write drops its batch: the step in which it fails leaves
\* every stored document as it was, ends the operation without starting
\* another in its place, and a write committed afterwards appends to what
\* the key held before, as if the failure had not happened.
C20_FailedWriteDropsBatch ==
    [][ /\ Len(failures') > Len(failures) =>
             /\ table' = table
             /\ commits' = commits
             /\ BagCardinality(tasks') = BagCardinality(tasks) - 1
             /\ launched' = launched
        /\ Len(commits') > Len(commits) =>
             LET c == commits'[Len(commits')]
                 old == { r \in table : SameKey(r, c.ids) }
                 before == IF old = {} THEN << >>
                           ELSE (CHOOSE r \in old : TRUE).blob
             IN  \E r2 \in table' :
                     SameKey(r2, c.ids) /\ r2.blob = before \o c.stored
      ]_vars

\* A write to a key has failed and a later write to the same key has
\* committed; the document holds the committed batch only.
C20_Witness ==
    \E k \in DOMAIN failures, j \in DOMAIN commits :
        /\ j > failures[k].after
        /\ SameKey(commits[j].ids, failures[k].ids)
        /\ \E r \in table :
              SameKey(r, commits[j].ids) /\ r.blob = commits[j].stored

\* C13: every message of every stored document has an id that is not the
\* empty string.
C13_PersistedIdsNonEmpty ==
    \A r \in table : \A i \in DOMAIN r.blob : r.blob[i].id # << >>

----------------------------------------------------------------------------
(* Properties of the mapper.                                               *)

\* C10: map_from_completion_event is defined on every event kind; it returns
\* no message for a status, start or usage event and exactly one message for
\* a text, thinking, stop or tool-use event, with or without a request
\* context.
C10_EventMappingTotal ==
    (mapDone /\ mapIn.op = "event") =>
        /\ mapIn.event.kind \in EventKinds
        /\ mapIn.event.kind \in { "StatusUpdate", "StartMessage", "UsageUpdate" }
             => mapOut = None
        /\ mapIn.event.kind \in { "Text", "Thinking", "Stop", "ToolUse" }
             => (Len(mapOut) = 1 /\ mapOut[1].type \in MessageTypes)

\* A stop event has been mapped without a request context.
C10_Witness ==
    /\ mapDone
    /\ mapIn.op = "event"
    /\ mapIn.event.kind = "Stop"
    /\ mapIn.metadata = None
    /\ Len(mapOut) = 1

\* C11: a mapped event follows the mapping table: text gives Ai with the text
\* as content; thinking gives Ai with the text as content, thinking = text
\* and signature present exactly when the event carries one; stop gives Ai
\* with the sentinel text; a tool invocation gives Tool with tool_call_id and
\* tool_name the tool's id and name, raw_input and is_input_complete in
\* additional_kwargs.
C11_MappingTable ==
    (mapDone /\ mapIn.op = "event" /\ IsSome(mapOut)) =>
        LET ev == mapIn.event
            m == Unwrap(mapOut)
            kw == m.additional_kwargs
        IN  /\ ev.kind = "Text" =>
                  /\ m.type = "ai"
                  /\ m.content = [ shape |-> "Single", text |-> ev.text ]
            /\ ev.kind = "Thinking" =>
                  /\ m.type = "ai"
                  /\ m.content = [ shape |-> "Single", text |-> ev.text ]
                  /\ "thinking" \in DOMAIN kw
                  /\ kw["thinking"] = JStr(ev.text)
                  /\ ("signature" \in DOMAIN kw) <=> IsSome(ev.signature)
                  /\ IsSome(ev.signature) =>
                        kw["signature"] = JStr(Unwrap(ev.signature))
            /\ ev.kind = "Stop" =>
                  /\ m.type = "ai"
                  /\ m.content = [ shape |-> "Single", text |-> STOP ]
            /\ ev.kind = "ToolUse" =>
                  /\ m.type = "tool"
                  /\ m.tool_call_id = Some(ev.tool_use.id)
                  /\ m.tool_name = Some(ev.tool_use.name)
                  /\ { "raw_input", "is_input_complete" } \subseteq DOMAIN kw
                  /\ kw["raw_input"] = JStr(ev.tool_use.raw_input)
                  /\ kw["is_input_complete"] =
                        JBool(ev.tool_use.is_input_complete)

\* A thinking event carrying a signature has been mapped.
C11_Witness ==
    /\ mapDone
    /\ mapIn.op = "event"
    /\ mapIn.event.kind = "Thinking"
    /\ IsSome(mapIn.event.signature)
    /\ IsSome(mapOut)

\* C12: map_from_completion_request yields exactly one message whose variant
\* is selected by the role alone (user: Human, system: System, assistant: Ai)
\* and whose id is the identity's thread_id.
C12_RoleSelectsVariant ==
    (mapDone /\ mapIn.op = "request") =>
        /\ Len(mapOut) = 1
        /\ mapOut[1].type =
              (CASE mapIn.message.role = "User" -> "human"
                 [] mapIn.message.role = "System" -> "system"
                 [] mapIn.message.role = "Assistant" -> "ai")
        /\ mapOut[1].id = mapIn.ids.thread_id

\* An assistant message whose content cannot be encoded has been mapped.
C12_Witness ==
    /\ mapDone
    /\ mapIn.op = "request"
    /\ mapIn.message.role = "Assistant"
    /\ mapIn.message.content = << [ kind |-> "Unserializable" ] >>
    /\ Len(mapOut) = 1

\* C14: every message the mapper produces has a model_id entry in its
\* response_metadata, with or without a request context.
C14_ModelIdAlwaysPresent ==
    (mapDone /\ IsSome(mapOut)) =>
        "model_id" \in DOMAIN Unwrap(mapOut).response_metadata

\* An event and a request message have been mapped without a request context.
C14_Witness ==
    /\ mapDone
    /\ mapIn.metadata = None
    /\ IsSome(mapOut)
    /\ mapIn.op = "event"

\* C15: response_metadata is sparse: each of temperature, intent, mode and
\* prompt_id is a key exactly when a request context is supplied and has the
\* field set, no key holds null, and there is no key besides model_id and
\* these four.
C15_SparseMetadata ==
    (mapDone /\ IsSome(mapOut)) =>
        LET rm == Unwrap(mapOut).response_metadata
            md == mapIn.metadata
        IN  /\ \A k \in { "temperature", "intent", "mode", "prompt_id" } :
                  (k \in DOMAIN rm) <=> (IsSome(md) /\ IsSome(Unwrap(md)[k]))
            /\ \A k \in DOMAIN rm : rm[k] # JNull
            /\ DOMAIN rm \subseteq
                  { "model_id", "temperature", "intent", "mode", "prompt_id" }

----------------------------------------------------------------------------
(* Properties of the classifier.                                           *)

\* The message carries the given tag as its intent.
CarriesIntent(m, tag) == Get(m.response_metadata, "intent") = Some(JStr(tag))

\* Every message of the batch carries the tag as its intent.
AllCarry(batch, tag) == \A i \in DOMAIN batch : CarriesIntent(batch[i], tag)

\* Some but not all messages of the batch carry the tag as their intent.
SomeNotAllCarry(batch, tag) ==
    /\ \E i \in DOMAIN batch : CarriesIntent(batch[i], tag)
    /\ \E i \in DOMAIN batch : ~CarriesIntent(batch[i], tag)

\* C16: a non-empty batch all of whose messages carry ThreadSummarization
\* is labelled "summarization"; one all of whose messages carry
\* ThreadContextSummarization is labelled "context_summarization".
C16_UniformBatches ==
    (mapDone /\ mapIn.op = "classify" /\ mapIn.batch # << >>) =>
        /\ AllCarry(mapIn.batch, ThreadSummarization) =>
              mapOut.label = "summarization"
        /\ AllCarry(mapIn.batch, ThreadContextSummarization) =>
              mapOut.label = "context_summarization"

\* A batch of two context-summarization messages has been classified and
\* written.
C16_Witness ==
    /\ mapDone
    /\ mapIn.op = "classify"
    /\ Len(mapIn.batch) = 2
    /\ AllCarry(mapIn.batch, ThreadContextSummarization)
    /\ \E r \in table : r.task_path = "context_summarization"

\* C17: a batch none of whose messages has an intent entry, the empty batch
\* included, is labelled "standard".
C17_EmptyIntentStandard ==
    (/\ mapDone
     /\ mapIn.op = "classify"
     /\ \A i \in DOMAIN mapIn.batch :
           "intent" \notin DOMAIN mapIn.batch[i].response_metadata) =>
        mapOut.label = "standard"

\* The write of a batch the client was handed has been attempted: a
\* statement was sent, and it committed with the given label or failed.
WriteProceeded(label) ==
    /\ IsSome(mapOut.stmt)
    /\ Len(commits) + Len(failures) = 1
    /\ Len(commits) = 1 =>
          \E r \in table : r.task_path = label /\ SameKey(r, TapIds)

----------------------------------------------------------------------------
(* Properties of the serialization.                                        *)

\* C24: a single-text ContentValue serializes as a bare JSON string and a
\* multi-text one as a bare JSON array of strings; parsing the text gives
\* back a value of the same shape with the same texts, and serializing that
\* value gives the same text.
C24_ContentValueRoundTrip ==
    (mapDone /\ mapIn.op = "content") =>
        /\ mapIn.value.shape = "Single" =>
              /\ Head(mapOut.serialized) = "\""
              /\ mapOut.serialized[Len(mapOut.serialized)] = "\""
        /\ mapIn.value.shape = "Multiple" =>
              /\ Head(mapOut.serialized) = "["
              /\ mapOut.serialized[Len(mapOut.serialized)] = "]"
        /\ mapOut.parsed.ok
        /\ mapOut.parsed.value = mapIn.value
        /\ serialize_content(mapOut.parsed.value) = mapOut.serialized

\* A multi-text value whose texts hold a quote and brackets has made the
\* round trip.
C24_Witness ==
    /\ mapDone
    /\ mapIn.op = "content"
    /\ mapIn.value = ContentValue_from_vec(<< TxtBrackets, TxtQuoted >>)
    /\ mapOut.parsed.ok

\* The keys of a serialized object.
Keys(obj) == { obj[i][1] : i \in DOMAIN obj }

\* The value the serialized object holds under a key.
ValueAt(obj, key) == obj[CHOOSE i \in DOMAIN obj : obj[i][1] = key][2]

\* The optional fields of a variant besides name.
OptionalFields(type) ==
    CASE type = "ai" -> { "invalid_tool_calls", "tool_calls" }
      [] type = "tool" -> { "tool_call_id", "tool_name" }
      [] type = "function" -> { "function_call" }
      [] OTHER -> {}

\* C25: a serialized Message is a flat object whose field type is the
\* variant name, in which every optional field of the variant is a key, with
\* null when unset, and additional_kwargs and response_metadata are
\* mappings, empty when nothing was set.
C25_FlatObjectExplicitNull ==
    (mapDone /\ mapIn.op = "message") =>
        LET m == mapIn.message
            obj == mapOut.serialized
        IN  /\ \A i, j \in DOMAIN obj : obj[i][1] = obj[j][1] => i = j
            /\ Keys(obj) =
                  { "type", "content", "id", "name", "example",
                    "additional_kwargs", "response_metadata" }
                  \cup OptionalFields(m.type)
            /\ m.type \in MessageTypes
            /\ ValueAt(obj, "type") = JStr(m.type)
            /\ \A k \in OptionalFields(m.type) \cup { "name" } :
                  /\ k \in Keys(obj)
                  /\ ~IsSome(m[k]) <=> ValueAt(obj, k) = JNull
            /\ ValueAt(obj, "additional_kwargs") = JObj(m.additional_kwargs)
            /\ ValueAt(obj, "response_metadata") = JObj(m.response_metadata)

\* A Function message with no name, no function_call and nothing set in its
\* mappings has been serialized.
C25_Witness ==
    /\ mapDone
    /\ mapIn.op = "message"
    /\ mapIn.message.type = "function"
    /\ mapIn.message.name = None
    /\ mapIn.message.function_call = None
    /\ mapIn.message.additional_kwargs = EmptyMap
    /\ ValueAt(mapOut.serialized, "function_call") = JNull

----------------------------------------------------------------------------
(* Eventual content of the tapped stream's document.                       *)

\* The messages save_completion_event maps from the Ok events of the
\* elements src, in stream order.
RECURSIVE StreamMessages(_)
StreamMessages(src) ==
    IF src = << >> THEN << >>
    ELSE LET batch == IF Head(src).ok
                      THEN save_completion_event(Head(src).ev, TapIds,
                                                 TapRequest, ModelId)
                      ELSE None
         IN  (IF IsSome(batch) THEN Unwrap(batch) ELSE << >>)
             \o StreamMessages(Tail(src))

\* The document stored under the key x addresses, empty when absent.
Document(x) ==
    IF \E r \in table : SameKey(r, x)
    THEN (CHOOSE r \in table : SameKey(r, x)).blob
    ELSE << >>

\* a holds the elements of b, each as often as b does.
IsPermutation(a, b) ==
    /\ Len(a) = Len(b)
    /\ \A x \in Range(a) \cup Range(b) : Occurrences(a, x) = Occurrences(b, x)

\* Only the tap has written to the stream's key.
OnlyTapWrote ==
    \A i \in DOMAIN commits :
        SameKey(commits[i].ids, TapIds) => commits[i].origin = "tap"

\* C31: with an available store, no failing write and fair scheduling, the
\* tapped stream is consumed to its end and from some point on the document
\* under the stream's key holds exactly the messages mapped from the
\* stream's Ok events, each once, and no longer changes.
C31_StreamEventuallyPersisted ==
    <>[]((HasStore /\ OnlyTapWrote) =>
            /\ Len(source) = MaxStream
            /\ IsPermutation(Document(TapIds), StreamMessages(source)))

----------------------------------------------------------------------------
(* The task_path column.                                                   *)

\* C32: a row's task_path is the classifier's label of the first batch
\* committed to its key, and a later write to the key, whatever the label of
\* its batch, leaves task_path as it was.
C32_TaskPathOfFirstBatch ==
    /\ [](\A r \in table :
            r.task_path = _parse_task_path(CommitsTo(r)[1].sent))
    /\ [][ \A r \in table :
             \E r2 \in table' : SameKey(r, r2) /\ r2.task_path = r.task_path
         ]_vars

\* A key has taken a second committed write whose batch the classifier
\* labels differently from the first.
C32_Witness ==
    \E r \in table :
        LET cs == CommitsTo(r)
        IN  /\ Len(cs) >= 2
            /\ _parse_task_path(cs[2].sent) # _parse_task_path(cs[1].sent)

====
